---- MODULE Spec2Model ----
(***************************************************************************)
(* Superhero comparison application.                                       *)
(*                                                                         *)
(*  - the React frontend (App.js): hero list loading, the bounded          *)
(*    selection of at most two heroes, the table/comparison views and the  *)
(*    local comparison (getSafeStat, calculateWinner);                     *)
(*  - the backend GET /api/superheroes/compare handler;                    *)
(*  - several sessions, one App instance each;                             *)
(*  - the MCP server's get_superhero tool.                                 *)
(*                                                                         *)
(* JavaScript values are modelled as tagged records.  A JSON-like raw      *)
(* value is [t, n, s]: t is the type tag, n the number (for t = "num") in  *)
(* TENTHS (35 stands for 3.5, so that floats with one decimal digit are    *)
(* representable), s the string (for t = "str") as a sequence of one       *)
(* character strings.  A JavaScript number that may be NaN is [nan, v],    *)
(* v again in tenths.                                                      *)
(***************************************************************************)
EXTENDS Integers, Sequences, FiniteSets, TLC

VARIABLES
    \* ---- frontend (App.js) ----
    superheroes,      \* useState([]) : the loaded hero list
    selectedHeroes,   \* useState([]) : the selection, oldest first
    currentView,      \* useState('table') : "table" or "comparison"
    fetchState,       \* the useEffect fetch: whether it settled, and the response it got
    history,          \* ghost: the UI events handled so far, each with the state it left
    \* ---- backend (compare endpoint) ----
    store,            \* data/superheroes.json as loadSuperheroes() yields it
    req,              \* the query of the last compare request
    res,              \* the response to it
    steps,            \* ghost: what the handler did for that request, in order
    served,           \* ghost: the requests served so far, each with its response
    \* ---- several browser sessions (one App instance each) ----
    sessions,         \* session -> the useState values of its App instance and its events
    \* ---- MCP server (get_superhero tool) ----
    tool,             \* the last get_superhero call: its arguments and its outcome
    \* ---- frontend that fetches the comparison from the backend ----
    showLogin,        \* useState(true) : the login screen is shown
    comparisonResult, \* useState(null) : the stored response of the compare endpoint
    pending,          \* the compare requests in flight, each with the ids it was sent with
    \* ---- the comparison screen of a pair of heroes ----
    screen            \* what renderComparison shows for the pair: rows, announcement, score

vars == <<superheroes, selectedHeroes, currentView, fetchState, history, store, req, res,
          steps, served, sessions, tool, showLogin, comparisonResult, pending, screen>>
uiVars == <<superheroes, selectedHeroes, currentView, fetchState, history>>
apiVars == <<store, req, res, steps, served>>
sessionVars == <<sessions>>
mcpVars == <<tool>>
remoteVars == <<showLogin, comparisonResult, pending>>
renderVars == <<screen>>

(***************************************************************************)
(* JavaScript values                                                       *)
(***************************************************************************)
Undef == [t |-> "undef", n |-> 0, s |-> <<>>]
Null == [t |-> "null", n |-> 0, s |-> <<>>]
Num(i) == [t |-> "num", n |-> i * 10, s |-> <<>>]
Tenths(i) == [t |-> "num", n |-> i, s |-> <<>>]
Str(chars) == [t |-> "str", n |-> 0, s |-> chars]

NaN == [nan |-> TRUE, v |-> 0]
JsNum(i) == [nan |-> FALSE, v |-> i]

DigitChars == <<"0", "1", "2", "3", "4", "5", "6", "7", "8", "9">>
IsDigit(c) == \E i \in DOMAIN DigitChars : DigitChars[i] = c
DigitVal(c) == (CHOOSE i \in DOMAIN DigitChars : DigitChars[i] = c) - 1
IsWhiteSpace(c) == c = " "

RECURSIVE DigitsPrefixLen(_)
DigitsPrefixLen(s) ==
    IF s = <<>> \/ ~IsDigit(s[1]) THEN 0 ELSE 1 + DigitsPrefixLen(Tail(s))

RECURSIVE DigitsValue(_)
DigitsValue(s) ==
    IF s = <<>> THEN 0
    ELSE DigitsValue(SubSeq(s, 1, Len(s) - 1)) * 10 + DigitVal(s[Len(s)])

RECURSIVE TrimStart(_)
TrimStart(s) ==
    IF s # <<>> /\ IsWhiteSpace(s[1]) THEN TrimStart(Tail(s)) ELSE s

RECURSIVE TrimEnd(_)
TrimEnd(s) ==
    IF s # <<>> /\ IsWhiteSpace(s[Len(s)]) THEN TrimEnd(SubSeq(s, 1, Len(s) - 1)) ELSE s

HasSign(s) == s # <<>> /\ s[1] \in {"+", "-"}
SignOf(s) == IF s # <<>> /\ s[1] = "-" THEN -1 ELSE 1
Unsigned(s) == IF HasSign(s) THEN Tail(s) ELSE s

\* StrUnsignedDecimalLiteral: digits, digits "." digits?, or "." digits.
\* Only the first fractional digit is kept (values are in tenths).
UnsignedDecimal(u) ==
    LET k == DigitsPrefixLen(u)
        int == DigitsValue(SubSeq(u, 1, k))
        rest == SubSeq(u, k + 1, Len(u))
    IN  IF rest = <<>>
        THEN IF k > 0 THEN JsNum(int * 10) ELSE NaN
        ELSE IF rest[1] = "."
             THEN LET frac == Tail(rest)
                  IN  IF DigitsPrefixLen(frac) = Len(frac) /\ (k > 0 \/ frac # <<>>)
                      THEN JsNum(int * 10 + (IF frac = <<>> THEN 0 ELSE DigitVal(frac[1])))
                      ELSE NaN
             ELSE NaN

\* Number(string): the whole trimmed string must be a numeric literal; "" is 0.
StringToNumber(s) ==
    LET t == TrimEnd(TrimStart(s))
        d == UnsignedDecimal(Unsigned(t))
    IN  IF t = <<>> THEN JsNum(0)
        ELSE IF d.nan THEN NaN ELSE JsNum(SignOf(t) * d.v)

\* Number(x)
ToNumber(x) ==
    CASE x.t = "undef" -> NaN
      [] x.t = "null" -> JsNum(0)
      [] x.t = "num" -> JsNum(x.n)
      [] x.t = "str" -> StringToNumber(x.s)

\* Math.trunc on tenths
TruncTenths(i) == IF i >= 0 THEN (i \div 10) * 10 ELSE -(((-i) \div 10) * 10)

\* parseInt(string): leading white space, a sign, then the longest digit prefix.
ParseIntString(s) ==
    LET t == TrimStart(s)
        u == Unsigned(t)
        k == DigitsPrefixLen(u)
    IN  IF k = 0 THEN NaN ELSE JsNum(SignOf(t) * DigitsValue(SubSeq(u, 1, k)) * 10)

\* parseInt(x): x is converted to a string first ("null", "undefined" have no digits)
parseInt(x) ==
    CASE x.t = "undef" -> NaN
      [] x.t = "null" -> NaN
      [] x.t = "num" -> JsNum(TruncTenths(x.n))
      [] x.t = "str" -> ParseIntString(x.s)

\* the decimal digits of a natural number
RECURSIVE DigitsOf(_)
DigitsOf(n) ==
    IF n < 10 THEN <<DigitChars[n + 1]>>
    ELSE DigitsOf(n \div 10) \o <<DigitChars[(n % 10) + 1]>>

\* Number.prototype.toString on tenths: "-"?, the integer digits, "." and a digit if fractional
NumberToString(i) ==
    LET a == IF i < 0 THEN -i ELSE i
    IN  (IF i < 0 THEN <<"-">> ELSE <<>>)
        \o DigitsOf(a \div 10)
        \o (IF a % 10 = 0 THEN <<>> ELSE <<".", DigitChars[(a % 10) + 1]>>)

\* s < t on strings of digits, "." and "-": by UTF-16 code unit, then by length
CharRank(c) == CASE c = "-" -> 0 [] c = "." -> 1 [] OTHER -> 2 + DigitVal(c)
RECURSIVE StringLess(_, _)
StringLess(s, t) ==
    IF t = <<>> THEN FALSE
    ELSE IF s = <<>> THEN TRUE
    ELSE IF s[1] = t[1] THEN StringLess(Tail(s), Tail(t))
    ELSE CharRank(s[1]) < CharRank(t[1])

\* a > b on JavaScript numbers: false when either is NaN
JsGt(a, b) == ~a.nan /\ ~b.nan /\ a.v > b.v
\* a === b on JavaScript numbers: NaN equals nothing
JsNumEq(a, b) == ~a.nan /\ ~b.nan /\ a.v = b.v
\* a === b on raw values (no NaN among them: they come from JSON)
StrictEq(a, b) == a = b
\* !x
Falsy(x) ==
    \/ x.t \in {"undef", "null"}
    \/ x.t = "num" /\ x.n = 0
    \/ x.t = "str" /\ x.s = <<>>

(***************************************************************************)
(* Hero records                                                            *)
(***************************************************************************)
categoriesOrder == <<"intelligence", "strength", "speed", "durability", "power", "combat">>
Stats == {categoriesOrder[i] : i \in DOMAIN categoriesOrder}

\* powerstats: an object (absent keys read as undefined), or absent altogether
PsObj(m) == [t |-> "obj", m |-> m]
PsUndef == [t |-> "undef", m |-> [c \in Stats |-> Undef]]
PsNull == [t |-> "null", m |-> [c \in Stats |-> Undef]]
Stat6(a, b, c, d, e, f) ==
    PsObj([x \in Stats |->
        CASE x = "intelligence" -> a [] x = "strength" -> b [] x = "speed" -> c
          [] x = "durability" -> d [] x = "power" -> e [] x = "combat" -> f])
Uniform(v) == PsObj([x \in Stats |-> v])

Hero(id, name, ps) == [id |-> id, name |-> name, powerstats |-> ps]

\* hero.powerstats?.[cat]
ReadStat(hero, cat) ==
    IF hero.powerstats.t = "obj" THEN hero.powerstats.m[cat] ELSE Undef

\* the heroes of the test suites
ABomb == Hero(Num(1), "A-Bomb", Stat6(Num(38), Num(100), Num(17), Num(80), Num(24), Num(64)))
AntMan == Hero(Num(2), "Ant-Man", Stat6(Num(100), Num(18), Num(23), Num(28), Num(32), Num(32)))
Bane == Hero(Num(3), "Bane", Stat6(Num(88), Num(38), Num(23), Num(56), Num(51), Num(95)))
InvalidChars == <<"i", "n", "v", "a", "l", "i", "d">>
HeroA == Hero(Num(1), "Hero A",
              Stat6(Null, Num(0), Num(-5), Str(InvalidChars), Undef, Num(50)))
HeroB == Hero(Num(2), "Hero B", Stat6(Num(100), Num(75), Num(60), Num(80), Num(90), Num(85)))
NoStats == Hero(Num(2), "Hero With No Stats", PsUndef)
\* a second record carrying the id of A-Bomb
ABombTwin == Hero(Num(1), "A-Bomb II", Uniform(Num(50)))
NoHero == Hero(Undef, "", PsUndef)

(***************************************************************************)
(* Frontend: App.js                                                        *)
(***************************************************************************)
MaxHistory == 6

\* bodies the GET /api/superheroes mock may answer with (arrays)
HeroLists ==
    { <<ABomb, AntMan, Bane>>, <<HeroA, HeroB>>, <<ABomb, AntMan, ABombTwin>>,
      <<HeroA, NoStats>>, <<>> }

Event(op, hero, sel, view) == [op |-> op, hero |-> hero, sel |-> sel, view |-> view]

\* prev.find(h => h.id === hero.id)
FindById(prev, hero) == \E i \in DOMAIN prev : StrictEq(prev[i].id, hero.id)
\* prev.filter(h => h.id !== hero.id)
RECURSIVE FilterOutId(_, _)
FilterOutId(prev, hero) ==
    IF prev = <<>> THEN <<>>
    ELSE IF StrictEq(prev[1].id, hero.id)
         THEN FilterOutId(Tail(prev), hero)
         ELSE <<prev[1]>> \o FilterOutId(Tail(prev), hero)

\* variants of the updater with one branch changed (used to test the properties)
handleHeroSelection_KeepWhenFull(prev, hero) ==
    IF FindById(prev, hero) THEN FilterOutId(prev, hero)
    ELSE IF Len(prev) < 2 THEN Append(prev, hero)
    ELSE prev
handleHeroSelection_RemoveClears(prev, hero) ==
    IF FindById(prev, hero) THEN <<>>
    ELSE IF Len(prev) < 2 THEN Append(prev, hero)
    ELSE <<prev[2], hero>>
handleHeroSelection_NoEvict(prev, hero) ==
    IF FindById(prev, hero) THEN FilterOutId(prev, hero)
    ELSE Append(prev, hero)
handleHeroSelection_EvictNewest(prev, hero) ==
    IF FindById(prev, hero) THEN FilterOutId(prev, hero)
    ELSE IF Len(prev) < 2 THEN Append(prev, hero)
    ELSE <<prev[1], hero>>
handleHeroSelection_AddFront(prev, hero) ==
    IF FindById(prev, hero) THEN FilterOutId(prev, hero)
    ELSE IF Len(prev) < 2 THEN <<hero>> \o prev
    ELSE <<prev[2], hero>>

\* the updater handleHeroSelection passes to setSelectedHeroes
handleHeroSelection(prev, hero) ==
    IF FindById(prev, hero) THEN FilterOutId(prev, hero)
    ELSE IF Len(prev) < 2 THEN Append(prev, hero)
    ELSE <<prev[2], hero>>

isHeroSelected(heroId) ==
    \E i \in DOMAIN selectedHeroes : StrictEq(selectedHeroes[i].id, heroId)

\* disabled={selectedHeroes.length !== 2}
CompareDisabled == Len(selectedHeroes) # 2

\* handleCompare without its length check
handleCompare_Unguarded(sel, view) == "comparison"

\* what handleCompare sets the view to
handleCompare(sel, view) == IF Len(sel) = 2 THEN "comparison" ELSE view

\* handleBackToTable without setSelectedHeroes([])
handleBackToTable_KeepsSelection == [view |-> "table", sel |-> selectedHeroes]

\* what handleBackToTable sets the view and the selection to
handleBackToTable == [view |-> "table", sel |-> <<>>]

\* the read with Number() in place of parseInt and without the isNaN default
getSafeStat_Number(hero, stat) ==
    IF hero.powerstats.t # "obj" \/ hero.powerstats.m[stat].t \in {"null", "undef"}
    THEN JsNum(0)
    ELSE ToNumber(hero.powerstats.m[stat])

\* getSafeStat: 0 without powerstats, for null or undefined, and when parseInt gives NaN
getSafeStat(hero, stat) ==
    IF hero.powerstats.t # "obj" \/ hero.powerstats.m[stat].t \in {"null", "undef"}
    THEN JsNum(0)
    ELSE LET value == parseInt(hero.powerstats.m[stat])
         IN  IF value.nan THEN JsNum(0) ELSE value

\* renderComparison: stat1 > stat2 ? 'hero1' : stat1 < stat2 ? 'hero2' : 'tie'
StatRowWinner(hero1, hero2, stat) ==
    LET stat1 == getSafeStat(hero1, stat)
        stat2 == getSafeStat(hero2, stat)
    IN  IF JsGt(stat1, stat2) THEN "hero1" ELSE IF JsGt(stat2, stat1) THEN "hero2" ELSE "tie"

\* stats.forEach(...): the categories hero a wins against hero b
StatsWon(a, b) ==
    Cardinality({i \in DOMAIN categoriesOrder :
        JsGt(getSafeStat(a, categoriesOrder[i]), getSafeStat(b, categoriesOrder[i]))})

\* calculateWinner with the score always printed hero 1 first
calculateWinner_Hero1First(hero1, hero2) ==
    LET hero1Score == StatsWon(hero1, hero2)
        hero2Score == StatsWon(hero2, hero1)
    IN  IF hero1Score > hero2Score THEN [winner |-> "hero1", score |-> <<hero1Score, hero2Score>>]
        ELSE IF hero2Score > hero1Score THEN [winner |-> "hero2", score |-> <<hero1Score, hero2Score>>]
        ELSE [winner |-> "null", score |-> <<hero1Score, hero2Score>>]

\* calculateWinner: winner is "hero1", "hero2" or "null"; score is the pair printed as `x-y`
calculateWinner(hero1, hero2) ==
    LET hero1Score == StatsWon(hero1, hero2)
        hero2Score == StatsWon(hero2, hero1)
    IN  IF hero1Score > hero2Score THEN [winner |-> "hero1", score |-> <<hero1Score, hero2Score>>]
        ELSE IF hero2Score > hero1Score THEN [winner |-> "hero2", score |-> <<hero2Score, hero1Score>>]
        ELSE [winner |-> "null", score |-> <<hero1Score, hero2Score>>]

\* the cells of one table row that show the hero's data
RowData(hero) ==
    [id |-> hero.id, name |-> hero.name,
     stats |-> [i \in DOMAIN categoriesOrder |-> getSafeStat(hero, categoriesOrder[i])]]

\* a table that leaves out the rows of the selected heroes
TableRows_HidesSelected ==
    LET shown == SelectSeq(superheroes, LAMBDA h : ~isHeroSelected(h.id))
    IN  [i \in DOMAIN shown |-> [data |-> RowData(shown[i]), checked |-> FALSE]]

\* renderTable: superheroes.map(hero => <tr> ... </tr>), a row per hero in list order
TableRows ==
    [i \in DOMAIN superheroes |->
        [data |-> RowData(superheroes[i]), checked |-> isHeroSelected(superheroes[i].id)]]

\* renderComparison returns null (nothing, hence no Back button) unless two are selected
ComparisonRendered == currentView = "comparison" /\ Len(selectedHeroes) = 2

\* what the fetch of /api/superheroes can get: kind is "array" (a JSON array,
\* data holds it), "notArray" (other JSON), "unparsable" (json() rejects) or
\* "networkError" (fetch itself rejects); ok is response.ok
Response(ok, kind, data) == [ok |-> ok, kind |-> kind, data |-> data]
NoResponse == Response(FALSE, "none", <<>>)

FailedResponses ==
    { Response(FALSE, "array", <<ABomb, AntMan, Bane>>),
      Response(FALSE, "notArray", <<>>),
      Response(FALSE, "unparsable", <<>>),
      Response(TRUE, "unparsable", <<>>),
      Response(FALSE, "networkError", <<>>) }

\* the promise chain without the response.ok check
fetchSuperheroes_NoOkCheck(response) ==
    IF response.kind = "networkError" THEN <<>>
    ELSE IF response.kind = "unparsable" THEN <<>>
    ELSE IF response.kind = "array" THEN response.data
    ELSE <<>>

\* the promise chain of the useEffect: the list handed to setSuperheroes
fetchSuperheroes(response) ==
    IF response.kind = "networkError" THEN <<>>
    ELSE IF ~response.ok THEN <<>>
    ELSE IF response.kind = "unparsable" THEN <<>>
    ELSE IF response.kind = "array" THEN response.data
    ELSE <<>>

InitUI ==
    /\ superheroes = <<>>
    /\ selectedHeroes = <<>>
    /\ currentView = "table"
    /\ fetchState = [done |-> FALSE, response |-> NoResponse]
    /\ history = <<>>

\* the fetch settles with this response
Settle(response) ==
    /\ ~fetchState.done
    /\ superheroes' = fetchSuperheroes(response)
    /\ fetchState' = [done |-> TRUE, response |-> response]
    /\ UNCHANGED <<selectedHeroes, currentView, history, apiVars, sessionVars, mcpVars, remoteVars, renderVars>>

\* .then(data => Array.isArray(data) ? setSuperheroes(data) : ...)
FetchArray == \E data \in HeroLists : Settle(Response(TRUE, "array", data))

\* a body that parses but is not an array
FetchNotArray == Settle(Response(TRUE, "notArray", <<>>))

\* !response.ok, response.json() rejecting, or the request failing: the catch
FetchCatch == \E response \in FailedResponses : Settle(response)

\* a click on the checkbox of a table row
ClickCheckbox ==
    /\ currentView = "table"
    /\ Len(history) < MaxHistory
    /\ \E i \in DOMAIN superheroes :
         LET hero == superheroes[i]
             next == handleHeroSelection(selectedHeroes, hero)
         IN  /\ selectedHeroes' = next
             /\ history' = Append(history, Event("toggle", hero, next, currentView))
    /\ UNCHANGED <<superheroes, currentView, fetchState, apiVars, sessionVars, mcpVars, remoteVars, renderVars>>

\* the Compare Heroes button's onClick
ClickCompare ==
    /\ currentView = "table"
    /\ Len(history) < MaxHistory
    /\ currentView' = handleCompare(selectedHeroes, currentView)
    /\ history' = Append(history, Event("compare", NoHero, selectedHeroes, currentView'))
    /\ UNCHANGED <<superheroes, selectedHeroes, fetchState, apiVars, sessionVars, mcpVars, remoteVars, renderVars>>

\* the Back to Heroes Table button's onClick
ClickBack ==
    /\ ComparisonRendered
    /\ Len(history) < MaxHistory
    /\ currentView' = handleBackToTable.view
    /\ selectedHeroes' = handleBackToTable.sel
    /\ history' = Append(history, Event("back", NoHero, selectedHeroes', currentView'))
    /\ UNCHANGED <<superheroes, fetchState, apiVars, sessionVars, mcpVars, remoteVars, renderVars>>

NextUI == FetchArray \/ FetchNotArray \/ FetchCatch \/ ClickCheckbox \/ ClickCompare \/ ClickBack

(***************************************************************************)
(* Several sessions: one App instance, with its own useState values, each  *)
(***************************************************************************)
NumSessions == 2
MaxSessionEvents == 5
Sessions == 1..NumSessions

\* the hero list every session has loaded
SessionHeroes == <<ABomb, AntMan, Bane>>

\* the state of a freshly mounted App and its (ghost) list of handled events
NewSession == [selectedHeroes |-> <<>>, currentView |-> "table", events |-> <<>>]

InitSessions == sessions = [s \in Sessions |-> NewSession]

\* the events handled so far, over all sessions
RECURSIVE TotalEvents(_, _)
TotalEvents(ss, n) == IF n = 0 THEN 0 ELSE Len(ss[n].events) + TotalEvents(ss, n - 1)

\* one selection shared by all App instances (a module-level variable)
SessionUpdate_Shared(ss, s, next) ==
    [t \in DOMAIN ss |->
        IF t = s THEN next ELSE [ss[t] EXCEPT !.selectedHeroes = next.selectedHeroes]]

\* a state setter of App instance s: only that instance's state changes
SessionUpdate(ss, s, next) == [ss EXCEPT ![s] = next]

\* a checkbox click in session s
SessionToggle ==
    /\ TotalEvents(sessions, NumSessions) < MaxSessionEvents
    /\ \E s \in Sessions, i \in DOMAIN SessionHeroes :
         LET cur == sessions[s]
             hero == SessionHeroes[i]
         IN  /\ cur.currentView = "table"
             /\ sessions' = SessionUpdate(sessions, s,
                    [selectedHeroes |-> handleHeroSelection(cur.selectedHeroes, hero),
                     currentView |-> cur.currentView,
                     events |-> Append(cur.events, [op |-> "toggle", hero |-> hero])])
    /\ UNCHANGED <<uiVars, apiVars, mcpVars, remoteVars, renderVars>>

\* a click on Compare Heroes in session s
SessionCompare ==
    /\ TotalEvents(sessions, NumSessions) < MaxSessionEvents
    /\ \E s \in Sessions :
         LET cur == sessions[s]
         IN  /\ cur.currentView = "table"
             /\ sessions' = SessionUpdate(sessions, s,
                    [selectedHeroes |-> cur.selectedHeroes,
                     currentView |-> handleCompare(cur.selectedHeroes, cur.currentView),
                     events |-> Append(cur.events, [op |-> "compare", hero |-> NoHero])])
    /\ UNCHANGED <<uiVars, apiVars, mcpVars, remoteVars, renderVars>>

\* a click on Back to Heroes Table in session s: the selection is cleared
SessionBack ==
    /\ TotalEvents(sessions, NumSessions) < MaxSessionEvents
    /\ \E s \in Sessions :
         LET cur == sessions[s]
         IN  /\ cur.currentView = "comparison" /\ Len(cur.selectedHeroes) = 2
             /\ sessions' = SessionUpdate(sessions, s,
                    [selectedHeroes |-> handleBackToTable.sel,
                     currentView |-> handleBackToTable.view,
                     events |-> Append(cur.events, [op |-> "back", hero |-> NoHero])])
    /\ UNCHANGED <<uiVars, apiVars, mcpVars, remoteVars, renderVars>>

NextSessions == SessionToggle \/ SessionCompare \/ SessionBack

(***************************************************************************)
(* Backend: GET /api/superheroes/compare?id1=&id2=                         *)
(***************************************************************************)
Chars1 == <<"1">>
Chars2 == <<"2">>
CharsAbc == <<"a", "b", "c">>
Chars9999 == <<"9", "9", "9", "9">>
Chars7 == <<"7">>
Chars7p5 == <<"7", ".", "5">>
Chars12abc == <<"1", "2", "a", "b", "c">>
CharsPadded7 == <<" ", "7", " ">>
CharsMinus5 == <<"-", "5">>

\* query parameter values: absent, or a string
QueryInputs ==
    { Undef, Str(<<>>), Str(Chars1), Str(Chars2), Str(CharsAbc), Str(Chars9999) }

\* raw powerstat values a data file may hold
StatInputs ==
    { Undef, Null, Num(0), Num(-5), Num(7), Tenths(75), Tenths(72),
      Str(<<>>), Str(Chars7), Str(Chars7p5), Str(InvalidChars), Str(Chars12abc),
      Str(CharsPadded7), Str(CharsMinus5) }

PowerstatShapes == {Uniform(v) : v \in StatInputs} \cup {PsUndef, PsNull}

\* data files: every pattern of per-category outcomes, every pair of raw value
\* shapes, the heroes of the tests, ids stored as strings, and an unreadable file
StoreInputs ==
    { [ok |-> TRUE, heroes |-> <<Hero(Num(1), "One", PsObj(m)), Hero(Num(2), "Two", Uniform(Num(2)))>>] :
        m \in [Stats -> {Num(1), Num(2), Num(3)}] }
    \cup
    { [ok |-> TRUE, heroes |-> <<Hero(Num(1), "One", p1), Hero(Num(2), "Two", p2)>>] :
        p1 \in PowerstatShapes, p2 \in PowerstatShapes }
    \cup
    { [ok |-> TRUE, heroes |-> <<ABomb, AntMan, Bane>>],
      [ok |-> TRUE, heroes |-> <<HeroA, HeroB>>],
      [ok |-> TRUE, heroes |-> <<Hero(Str(Chars1), "One", ABomb.powerstats),
                                 Hero(Str(Chars2), "Two", HeroA.powerstats)>>],
      [ok |-> FALSE, heroes |-> <<>>] }

NoReq == [id1 |-> Undef, id2 |-> Undef]
ErrorResponse(status, error) ==
    [status |-> status, error |-> error, id1 |-> NaN, id2 |-> NaN,
     categories |-> <<>>, overall_winner |-> ""]
NoRes == ErrorResponse(0, "")

\* superheroes.find((h) => Number(h.id) === idNum): the index found, 0 for undefined
FindHero(heroes, idNum) ==
    IF \E i \in DOMAIN heroes : JsNumEq(ToNumber(heroes[i].id), idNum)
    THEN CHOOSE i \in DOMAIN heroes :
            /\ JsNumEq(ToNumber(heroes[i].id), idNum)
            /\ \A j \in 1..(i - 1) : ~JsNumEq(ToNumber(heroes[j].id), idNum)
    ELSE 0

\* the values compared as strings (no Number()): "38" > "100"
CategoryWinner_Lexicographic(v1, v2) ==
    IF v1.nan \/ v2.nan THEN "tie"
    ELSE IF StringLess(NumberToString(v2.v), NumberToString(v1.v)) THEN "1"
    ELSE IF StringLess(NumberToString(v1.v), NumberToString(v2.v)) THEN "2"
    ELSE "tie"

\* a category always has a winner: side 2 unless side 1 is greater
CategoryWinner_NoTie(v1, v2) == IF JsGt(v1, v2) THEN "1" ELSE "2"

\* v1 >= v2 in place of v1 > v2
CategoryWinner_GreaterOrEqual(v1, v2) == IF JsGt(v2, v1) THEN "2" ELSE "1"

\* if (v1 > v2) winner = 1; else if (v2 > v1) winner = 2;   (initially 'tie')
CategoryWinner(v1, v2) == IF JsGt(v1, v2) THEN "1" ELSE IF JsGt(v2, v1) THEN "2" ELSE "tie"

\* one element of categoriesOrder.map(...)
CategoryResult(cat, hero1, hero2) ==
    LET v1 == ToNumber(ReadStat(hero1, cat))
        v2 == ToNumber(ReadStat(hero2, cat))
    IN  [name |-> cat, winner |-> CategoryWinner(v1, v2), id1_value |-> v1, id2_value |-> v2]

\* a map that drops the categories it cannot read a number for
Categories_SkipUnreadable(hero1, hero2) ==
    SelectSeq([i \in DOMAIN categoriesOrder |-> CategoryResult(categoriesOrder[i], hero1, hero2)],
              LAMBDA c : ~c.id1_value.nan /\ ~c.id2_value.nan)

Categories(hero1, hero2) ==
    [i \in DOMAIN categoriesOrder |-> CategoryResult(categoriesOrder[i], hero1, hero2)]

\* categories.filter(c => c.winner === w).length
Wins(categories, w) == Cardinality({i \in DOMAIN categories : categories[i].winner = w})

RECURSIVE SumValues(_, _)
SumValues(categories, side) ==
    IF categories = <<>> THEN 0
    ELSE LET c == categories[1]
             v == IF side = 1 THEN c.id1_value ELSE c.id2_value
         IN  (IF v.nan THEN 0 ELSE v.v) + SumValues(Tail(categories), side)
\* the winner by the sum of the values instead of the number of categories won
OverallWinner_BySum(categories) ==
    LET total1 == SumValues(categories, 1)
        total2 == SumValues(categories, 2)
    IN  IF total1 > total2 THEN "1" ELSE IF total2 > total1 THEN "2" ELSE "tie"

OverallWinner(categories) ==
    LET hero1Wins == Wins(categories, "1")
        hero2Wins == Wins(categories, "2")
    IN  IF hero1Wins > hero2Wins THEN "1" ELSE IF hero2Wins > hero1Wins THEN "2" ELSE "tie"

RequiredError == "Both id1 and id2 query parameters are required"
NumbersError == "id1 and id2 must be valid numbers"
NotFoundError == "One or both superheroes not found"
ServerError == "Internal Server Error"

\* the handler with the data file read before the query is validated
HandleCompareRequest_LoadFirst(file, query) ==
    LET id1Num == ToNumber(query.id1)
        id2Num == ToNumber(query.id2)
    IN  IF ~file.ok
        THEN [res |-> ErrorResponse(500, ServerError), steps |-> <<"loadSuperheroes">>]
        ELSE IF Falsy(query.id1) \/ Falsy(query.id2)
        THEN [res |-> ErrorResponse(400, RequiredError), steps |-> <<"loadSuperheroes", "validate">>]
        ELSE IF id1Num.nan \/ id2Num.nan
        THEN [res |-> ErrorResponse(400, NumbersError), steps |-> <<"loadSuperheroes", "validate">>]
        ELSE LET h1 == FindHero(file.heroes, id1Num)
                 h2 == FindHero(file.heroes, id2Num)
             IN  IF h1 = 0 \/ h2 = 0
                 THEN [res |-> ErrorResponse(400, NotFoundError),
                       steps |-> <<"loadSuperheroes", "validate", "find">>]
                 ELSE LET categories == Categories(file.heroes[h1], file.heroes[h2])
                      IN  [res |-> [status |-> 200, error |-> "", id1 |-> id1Num, id2 |-> id2Num,
                                    categories |-> categories,
                                    overall_winner |-> OverallWinner(categories)],
                           steps |-> <<"loadSuperheroes", "validate", "find", "compare">>]

\* the handler with its two checks of the query in the other order
HandleCompareRequest_NumbersFirst(file, query) ==
    LET id1Num == ToNumber(query.id1)
        id2Num == ToNumber(query.id2)
    IN  IF id1Num.nan \/ id2Num.nan
        THEN [res |-> ErrorResponse(400, NumbersError), steps |-> <<"validate">>]
        ELSE IF Falsy(query.id1) \/ Falsy(query.id2)
        THEN [res |-> ErrorResponse(400, RequiredError), steps |-> <<"validate">>]
        ELSE IF ~file.ok
        THEN [res |-> ErrorResponse(500, ServerError), steps |-> <<"validate", "loadSuperheroes">>]
        ELSE LET h1 == FindHero(file.heroes, id1Num)
                 h2 == FindHero(file.heroes, id2Num)
             IN  IF h1 = 0 \/ h2 = 0
                 THEN [res |-> ErrorResponse(400, NotFoundError),
                       steps |-> <<"validate", "loadSuperheroes", "find">>]
                 ELSE LET categories == Categories(file.heroes[h1], file.heroes[h2])
                      IN  [res |-> [status |-> 200, error |-> "", id1 |-> id1Num, id2 |-> id2Num,
                                    categories |-> categories,
                                    overall_winner |-> OverallWinner(categories)],
                           steps |-> <<"validate", "loadSuperheroes", "find", "compare">>]

\* the handler that compares before it checks that both heroes were found
HandleCompareRequest_CompareThenCheck(file, query) ==
    LET id1Num == ToNumber(query.id1)
        id2Num == ToNumber(query.id2)
    IN  IF Falsy(query.id1) \/ Falsy(query.id2)
        THEN [res |-> ErrorResponse(400, RequiredError), steps |-> <<"validate">>]
        ELSE IF id1Num.nan \/ id2Num.nan
        THEN [res |-> ErrorResponse(400, NumbersError), steps |-> <<"validate">>]
        ELSE IF ~file.ok
        THEN [res |-> ErrorResponse(500, ServerError), steps |-> <<"validate", "loadSuperheroes">>]
        ELSE LET h1 == FindHero(file.heroes, id1Num)
                 h2 == FindHero(file.heroes, id2Num)
                 hero1 == IF h1 = 0 THEN NoHero ELSE file.heroes[h1]
                 hero2 == IF h2 = 0 THEN NoHero ELSE file.heroes[h2]
                 categories == Categories(hero1, hero2)
             IN  [res |-> [status |-> 200, error |-> "", id1 |-> id1Num, id2 |-> id2Num,
                           categories |-> categories,
                           overall_winner |-> OverallWinner(categories)],
                  steps |-> <<"validate", "loadSuperheroes", "find", "compare">>]

\* the route handler, from the query to the response, with the steps it took:
\* "validate" (the two checks of the query), "loadSuperheroes", "find" (the
\* two lookups), "compare" (the categories and the overall winner)
HandleCompareRequest(file, query) ==
    LET id1Num == ToNumber(query.id1)
        id2Num == ToNumber(query.id2)
    IN  IF Falsy(query.id1) \/ Falsy(query.id2)
        THEN [res |-> ErrorResponse(400, RequiredError), steps |-> <<"validate">>]
        ELSE IF id1Num.nan \/ id2Num.nan
        THEN [res |-> ErrorResponse(400, NumbersError), steps |-> <<"validate">>]
        ELSE IF ~file.ok
        THEN [res |-> ErrorResponse(500, ServerError), steps |-> <<"validate", "loadSuperheroes">>]
        ELSE LET h1 == FindHero(file.heroes, id1Num)
                 h2 == FindHero(file.heroes, id2Num)
             IN  IF h1 = 0 \/ h2 = 0
                 THEN [res |-> ErrorResponse(400, NotFoundError),
                       steps |-> <<"validate", "loadSuperheroes", "find">>]
                 ELSE LET categories == Categories(file.heroes[h1], file.heroes[h2])
                      IN  [res |-> [status |-> 200, error |-> "", id1 |-> id1Num, id2 |-> id2Num,
                                    categories |-> categories,
                                    overall_winner |-> OverallWinner(categories)],
                           steps |-> <<"validate", "loadSuperheroes", "find", "compare">>]

\* the response alone
CompareHandler(file, query) == HandleCompareRequest(file, query).res

InitApi ==
    /\ store \in StoreInputs
    /\ req = NoReq
    /\ res = NoRes
    /\ steps = <<>>
    /\ served = <<>>

\* a handler that keeps its last successful response and sends it again
Serve_Cached(id1, id2) ==
    /\ req' = [id1 |-> id1, id2 |-> id2]
    /\ res' = IF res.status = 200 THEN res ELSE CompareHandler(store, req')
    /\ steps' = HandleCompareRequest(store, req').steps

\* one request: the query, the response and the steps of the handler
Serve(id1, id2) ==
    /\ req' = [id1 |-> id1, id2 |-> id2]
    /\ res' = CompareHandler(store, req')
    /\ steps' = HandleCompareRequest(store, req').steps

GetCompare ==
    /\ \E id1 \in QueryInputs, id2 \in QueryInputs : Serve(id1, id2)
    /\ UNCHANGED <<store, served, uiVars, sessionVars, mcpVars, remoteVars, renderVars>>

\* repeated requests against one data file, each recorded with its response
\* and the data file as the handler left it
MaxServed == 3

RepeatStores ==
    { [ok |-> TRUE, heroes |-> <<ABomb, AntMan, Bane>>],
      [ok |-> TRUE, heroes |-> <<HeroA, HeroB>>],
      [ok |-> TRUE, heroes |-> <<Hero(Str(Chars1), "One", ABomb.powerstats),
                                 Hero(Str(Chars2), "Two", HeroA.powerstats)>>],
      [ok |-> FALSE, heroes |-> <<>>] }

RepeatQueries == { Str(Chars1), Str(Chars2), Str(CharsAbc) }

InitRepeat ==
    /\ store \in RepeatStores
    /\ req = NoReq
    /\ res = NoRes
    /\ steps = <<>>
    /\ served = <<>>

GetCompareRecorded ==
    /\ Len(served) < MaxServed
    /\ UNCHANGED <<store, uiVars, sessionVars, mcpVars, remoteVars, renderVars>>
    /\ \E id1 \in RepeatQueries, id2 \in RepeatQueries : Serve(id1, id2)
    /\ served' = Append(served, [req |-> req', res |-> res', store |-> store'])

(***************************************************************************)
(* Frontend with login that fetches the comparison from the backend        *)
(***************************************************************************)
MaxRemoteEvents == 6

\* the hero lists the backend serves
RemoteHeroLists == { <<ABomb, AntMan, Bane>>, <<HeroA, HeroB>> }

\* `${hero.id}` in the request URL
CharsUndefined == <<"u", "n", "d", "e", "f", "i", "n", "e", "d">>
CharsNull == <<"n", "u", "l", "l">>
TemplateString(x) ==
    CASE x.t = "num" -> NumberToString(x.n)
      [] x.t = "str" -> x.s
      [] x.t = "null" -> CharsNull
      [] OTHER -> CharsUndefined

\* the query of /api/superheroes/compare?id1=${selectedHeroes[0].id}&id2=${selectedHeroes[1].id}
CompareQuery(sel) == [id1 |-> Str(TemplateString(sel[1].id)), id2 |-> Str(TemplateString(sel[2].id))]

\* what a compare request can get: the backend's response over the list it
\* served, a 500 of the backend, or no response at all (the fetch rejects)
CompareResponse(kind, body) == [kind |-> kind, body |-> body]
CompareResponses(query) ==
    { CompareResponse("http", CompareHandler([ok |-> TRUE, heroes |-> superheroes], query)),
      CompareResponse("http", ErrorResponse(500, ServerError)),
      CompareResponse("networkError", NoRes) }

\* response.ok
ResponseOk(response) == response.kind = "http" /\ response.body.status = 200

\* an event of this frontend with the state it left
RemoteEvent(op, hero, sel, view, result) ==
    [op |-> op, hero |-> hero, sel |-> sel, view |-> view, result |-> result]

\* the rest of handleCompare without the response.ok check
afterCompareFetch_NoOkCheck(view, result, response) ==
    IF response.kind = "networkError" THEN [view |-> view, result |-> result]
    ELSE [view |-> "comparison", result |-> response.body]

\* the rest of handleCompare once the fetch settles: setComparisonResult and
\* setCurrentView('comparison'), or the catch, which only logs
afterCompareFetch(view, result, response) ==
    IF response.kind = "networkError" THEN [view |-> view, result |-> result]
    ELSE IF ~ResponseOk(response) THEN [view |-> view, result |-> result]
    ELSE [view |-> "comparison", result |-> response.body]

\* renderTable is what the page shows
TableShown == ~showLogin /\ currentView = "table"

\* renderComparison returns the comparison screen (with its Back button), not null
RemoteComparisonShown ==
    /\ ~showLogin /\ currentView = "comparison"
    /\ Len(selectedHeroes) = 2 /\ comparisonResult # NoRes

\* the login form is submitted: onLogin
Login ==
    /\ showLogin
    /\ showLogin' = FALSE
    /\ UNCHANGED <<uiVars, comparisonResult, pending, apiVars, sessionVars, mcpVars, renderVars>>

\* the fetch of the hero list, started once the login screen is left, settles
RemoteFetch ==
    /\ ~showLogin /\ ~fetchState.done
    /\ \E response \in {Response(TRUE, "array", data) : data \in RemoteHeroLists}
                          \cup {Response(FALSE, "notArray", <<>>)} :
         /\ superheroes' = fetchSuperheroes(response)
         /\ fetchState' = [done |-> TRUE, response |-> response]
    /\ UNCHANGED <<selectedHeroes, currentView, history, remoteVars, apiVars, sessionVars, mcpVars, renderVars>>

\* a click on the checkbox of a table row
RemoteClickCheckbox ==
    /\ TableShown
    /\ Len(history) < MaxRemoteEvents
    /\ \E i \in DOMAIN superheroes :
         LET hero == superheroes[i]
             next == handleHeroSelection(selectedHeroes, hero)
         IN  /\ selectedHeroes' = next
             /\ history' = Append(history,
                    RemoteEvent("toggle", hero, next, currentView, comparisonResult))
    /\ UNCHANGED <<superheroes, currentView, fetchState, remoteVars, apiVars, sessionVars, mcpVars, renderVars>>

\* a click on Compare Heroes: handleCompare up to its await
RemoteClickCompare ==
    /\ TableShown
    /\ Len(history) < MaxRemoteEvents
    /\ pending' = IF Len(selectedHeroes) = 2
                  THEN Append(pending, CompareQuery(selectedHeroes))
                  ELSE pending
    /\ history' = Append(history,
           RemoteEvent("compare", NoHero, selectedHeroes, currentView, comparisonResult))
    /\ UNCHANGED <<superheroes, selectedHeroes, currentView, fetchState, showLogin, comparisonResult,
                   apiVars, sessionVars, mcpVars, renderVars>>

\* a compare request settles: handleCompare after its await
RemoteCompareSettles ==
    /\ Len(history) < MaxRemoteEvents
    /\ \E i \in DOMAIN pending : \E response \in CompareResponses(pending[i]) :
         LET next == afterCompareFetch(currentView, comparisonResult, response)
         IN  /\ pending' = SubSeq(pending, 1, i - 1) \o SubSeq(pending, i + 1, Len(pending))
             /\ currentView' = next.view
             /\ comparisonResult' = next.result
             /\ history' = Append(history,
                    RemoteEvent(IF ResponseOk(response) THEN "compared" ELSE "compareFailed",
                                NoHero, selectedHeroes, next.view, next.result))
    /\ UNCHANGED <<superheroes, selectedHeroes, fetchState, showLogin, apiVars, sessionVars, mcpVars, renderVars>>

\* a click on Back to Heroes Table: handleBackToTable
RemoteClickBack ==
    /\ RemoteComparisonShown
    /\ Len(history) < MaxRemoteEvents
    /\ currentView' = "table"
    /\ selectedHeroes' = <<>>
    /\ comparisonResult' = NoRes
    /\ history' = Append(history, RemoteEvent("back", NoHero, <<>>, "table", NoRes))
    /\ UNCHANGED <<superheroes, fetchState, showLogin, pending, apiVars, sessionVars, mcpVars, renderVars>>

NextRemote ==
    Login \/ RemoteFetch \/ RemoteClickCheckbox \/ RemoteClickCompare
    \/ RemoteCompareSettles \/ RemoteClickBack

(***************************************************************************)
(* The comparison screen of a pair, in both frontends                      *)
(***************************************************************************)
\* data files holding a pair of heroes with ids 1 and 2: every pair of raw
\* value shapes, and the pairs of the tests
RenderStores ==
    { [ok |-> TRUE, heroes |-> <<Hero(Num(1), "One", p1), Hero(Num(2), "Two", p2)>>] :
        p1 \in PowerstatShapes, p2 \in PowerstatShapes }
    \cup
    { [ok |-> TRUE, heroes |-> <<ABomb, AntMan>>],
      [ok |-> TRUE, heroes |-> <<HeroA, HeroB>>],
      [ok |-> TRUE, heroes |-> <<Hero(Num(1), "One", Uniform(Num(9))),
                                 Hero(Num(2), "Two", Stat6(Num(9), Num(9), Num(9), Num(1), Num(1), Num(1)))>>],
      [ok |-> TRUE, heroes |-> <<Hero(Num(1), "One", Stat6(Num(1), Num(9), Num(9), Num(9), Num(9), Num(5))),
                                 Hero(Num(2), "Two", Uniform(Num(5)))>>] }

NoScreen == [version |-> "none", hero1 |-> NoHero, hero2 |-> NoHero, rows |-> <<>>,
             announced |-> "", winnerName |-> "", score |-> <<0, 0>>]

\* a row of the comparison: the two values shown and the side highlighted
StatRow(stat1, stat2, winner) == [stat1 |-> stat1, stat2 |-> stat2, winner |-> winner]

\* renderComparison of the frontend that compares locally
LocalScreen(hero1, hero2) ==
    LET result == calculateWinner(hero1, hero2)
    IN  [version |-> "local", hero1 |-> hero1, hero2 |-> hero2,
         rows |-> [i \in DOMAIN categoriesOrder |->
                     StatRow(getSafeStat(hero1, categoriesOrder[i]),
                             getSafeStat(hero2, categoriesOrder[i]),
                             StatRowWinner(hero1, hero2, categoriesOrder[i]))],
         announced |-> IF result.winner # "null" THEN "winner" ELSE "tie",
         winnerName |-> IF result.winner = "hero1" THEN hero1.name
                        ELSE IF result.winner = "hero2" THEN hero2.name ELSE "",
         score |-> result.score]

\* renderComparison of the frontend that shows the backend's result
RemoteScreen(hero1, hero2, result) ==
    LET categories == result.categories
        hero1Wins == Wins(categories, "1")
        hero2Wins == Wins(categories, "2")
    IN  [version |-> "remote", hero1 |-> hero1, hero2 |-> hero2,
         rows |-> [i \in DOMAIN categories |->
                     StatRow(categories[i].id1_value, categories[i].id2_value,
                             IF categories[i].winner = "1" THEN "hero1"
                             ELSE IF categories[i].winner = "2" THEN "hero2" ELSE "tie")],
         announced |-> IF result.overall_winner = "tie" THEN "tie" ELSE "winner",
         winnerName |-> IF result.overall_winner = "tie" THEN ""
                        ELSE IF result.overall_winner = "1" THEN hero1.name ELSE hero2.name,
         score |-> IF result.overall_winner = "tie" \/ result.overall_winner = "1"
                   THEN <<hero1Wins, hero2Wins>> ELSE <<hero2Wins, hero1Wins>>]

\* GET /api/superheroes/compare?id1=1&id2=2 on the pair's data file
GetComparePair ==
    /\ Serve(Str(Chars1), Str(Chars2))
    /\ UNCHANGED <<store, served, uiVars, sessionVars, mcpVars, remoteVars, renderVars>>

\* the local frontend renders the comparison of the pair, selected in file order
RenderLocalComparison ==
    /\ store.ok /\ Len(store.heroes) = 2
    /\ screen' = LocalScreen(store.heroes[1], store.heroes[2])
    /\ UNCHANGED <<apiVars, uiVars, sessionVars, mcpVars, remoteVars>>

\* the other frontend renders the backend's response for the pair
RenderRemoteComparison ==
    /\ store.ok /\ Len(store.heroes) = 2
    /\ res.status = 200
    /\ screen' = RemoteScreen(store.heroes[1], store.heroes[2], res)
    /\ UNCHANGED <<apiVars, uiVars, sessionVars, mcpVars, remoteVars>>

(***************************************************************************)
(* MCP server: the get_superhero tool                                      *)
(***************************************************************************)
UpperChars == <<"A", "B", "M", "O">>
LowerChars == <<"a", "b", "m", "o">>

\* String.prototype.toLowerCase, character by character
LowerOf(c) ==
    IF \E i \in DOMAIN UpperChars : UpperChars[i] = c
    THEN LowerChars[CHOOSE i \in DOMAIN UpperChars : UpperChars[i] = c]
    ELSE c
toLowerCase(s) == [i \in 1..Len(s) |-> LowerOf(s[i])]

NameABomb == <<"A", "-", "B", "o", "m", "b">>
NameABombUpper == <<"A", "-", "B", "O", "M", "B">>
NameABombLower == <<"a", "-", "b", "o", "m", "b">>
NameAntMan == <<"A", "n", "t", "-", "M", "a", "n">>
NameBane == <<"B", "a", "n", "e">>
Chars01 == <<"0", "1">>

\* a hero of the data file as the tool reads it: id and name are raw values
McpHero(id, name) == [id |-> id, name |-> name]
NoMcpHero == McpHero(Undef, Undef)

\* data files: the heroes of the tests, names equal but for case, a string id
\* and a repeated id, a hero without id and name, a hero with an empty name,
\* no hero, and an unreadable file
McpStores ==
    { [ok |-> TRUE, heroes |-> <<McpHero(Num(1), Str(NameABomb)), McpHero(Num(2), Str(NameAntMan)),
                                 McpHero(Num(3), Str(NameBane))>>],
      [ok |-> TRUE, heroes |-> <<McpHero(Num(2), Str(NameABombLower)), McpHero(Num(1), Str(NameABomb))>>],
      [ok |-> TRUE, heroes |-> <<McpHero(Str(Chars1), Str(NameAntMan)), McpHero(Num(1), Str(NameABomb))>>],
      [ok |-> TRUE, heroes |-> <<McpHero(Undef, Undef), McpHero(Num(2), Str(NameAntMan))>>],
      [ok |-> TRUE, heroes |-> <<McpHero(Num(1), Str(<<>>)), McpHero(Num(2), Str(NameAntMan))>>],
      [ok |-> TRUE, heroes |-> <<>>],
      [ok |-> FALSE, heroes |-> <<>>] }

\* the tool's arguments: absent, or a string
NameInputs ==
    { Undef, Str(<<>>), Str(NameABomb), Str(NameABombUpper), Str(NameAntMan), Str(NameBane) }
IdInputs == { Undef, Str(<<>>), Str(Chars1), Str(Chars2), Str(Chars01), Str(Chars9999) }

\* name?.toLowerCase()
nameLc(name) == IF name.t = "str" THEN Str(toLowerCase(name.s)) ELSE Undef
\* id?.toString()
idStr(id) == IF id.t = "str" THEN Str(id.s) ELSE Undef
\* hero.name?.toLowerCase() ?? ""
heroNameLc(hero) == IF hero.name.t = "str" THEN toLowerCase(hero.name.s) ELSE <<>>
\* hero.id?.toString() ?? ""
heroIdStr(hero) ==
    CASE hero.id.t = "num" -> NumberToString(hero.id.n)
      [] hero.id.t = "str" -> hero.id.s
      [] OTHER -> <<>>

\* the callback of superheroes.find
FindPredicate(hero, name, id) ==
    \/ ~Falsy(nameLc(name)) /\ heroNameLc(hero) = nameLc(name).s
    \/ ~Falsy(idStr(id)) /\ heroIdStr(hero) = idStr(id).s

\* the last hero the callback accepts, in place of the first
RECURSIVE McpFind_Last(_, _, _)
McpFind_Last(heroes, name, id) ==
    IF heroes = <<>> THEN 0
    ELSE IF FindPredicate(heroes[Len(heroes)], name, id) THEN Len(heroes)
    ELSE McpFind_Last(SubSeq(heroes, 1, Len(heroes) - 1), name, id)

\* Array.prototype.find: the index of the first hero the callback accepts, 0 if none
RECURSIVE McpFind(_, _, _)
McpFind(heroes, name, id) ==
    IF heroes = <<>> THEN 0
    ELSE IF FindPredicate(heroes[1], name, id) THEN 1
    ELSE LET k == McpFind(Tail(heroes), name, id) IN IF k = 0 THEN 0 ELSE k + 1

\* the tool's handler: the hero whose data it returns, or the error it throws
get_superhero(file, name, id) ==
    IF ~file.ok THEN [error |-> "Failed to load superheroes data", hero |-> NoMcpHero]
    ELSE LET k == McpFind(file.heroes, name, id)
         IN  IF k = 0 THEN [error |-> "Superhero not found", hero |-> NoMcpHero]
             ELSE [error |-> "", hero |-> file.heroes[k]]

NoCall == [called |-> FALSE, name |-> Undef, id |-> Undef,
           result |-> [error |-> "", hero |-> NoMcpHero]]

InitMcp ==
    /\ store \in McpStores
    /\ tool = NoCall

CallGetSuperhero ==
    /\ \E name \in NameInputs, id \in IdInputs :
         tool' = [called |-> TRUE, name |-> name, id |-> id,
                  result |-> get_superhero(store, name, id)]
    /\ UNCHANGED <<store, req, res, steps, served, uiVars, sessionVars, remoteVars, renderVars>>

(***************************************************************************)
(* Specifications                                                          *)
(***************************************************************************)
\* the frontend alone
IdleApi ==
    /\ store = [ok |-> FALSE, heroes |-> <<>>]
    /\ req = NoReq /\ res = NoRes /\ steps = <<>> /\ served = <<>>
IdleSessions == sessions = <<>>
IdleMcp == tool = <<>>
IdleRemote == showLogin = TRUE /\ comparisonResult = NoRes /\ pending = <<>> /\ screen = NoScreen

Init == InitUI /\ IdleApi /\ IdleSessions /\ IdleMcp /\ IdleRemote
Next == NextUI
Spec == Init /\ [][Next]_vars

\* the compare endpoint alone
InitCompare == InitApi /\ InitUI /\ IdleSessions /\ IdleMcp /\ IdleRemote
NextCompare == GetCompare
SpecCompare == InitCompare /\ [][NextCompare]_vars

\* the compare endpoint serving several requests in a row
NextRepeat == GetCompareRecorded
InitRepeated == InitRepeat /\ InitUI /\ IdleSessions /\ IdleMcp /\ IdleRemote
SpecRepeat == InitRepeated /\ [][NextRepeat]_vars

\* several sessions of the frontend side by side
InitMounted == InitSessions /\ InitUI /\ IdleApi /\ IdleMcp /\ IdleRemote
SpecSessions == InitMounted /\ [][NextSessions]_vars

\* the MCP server's tool
NextMcp == CallGetSuperhero
InitTool ==
    /\ InitMcp /\ InitUI /\ IdleSessions
    /\ req = NoReq /\ res = NoRes /\ steps = <<>> /\ served = <<>>
    /\ IdleRemote
SpecMcp == InitTool /\ [][NextMcp]_vars

\* the comparison of one pair of heroes: the backend's response and the screens
InitRender ==
    /\ store \in RenderStores
    /\ req = NoReq /\ res = NoRes /\ steps = <<>> /\ served = <<>>
    /\ InitUI /\ IdleRemote /\ IdleSessions /\ IdleMcp
NextRender == GetComparePair \/ RenderLocalComparison \/ RenderRemoteComparison
SpecRender == InitRender /\ [][NextRender]_vars

\* the frontend that fetches the comparison from the backend
InitRemote == InitUI /\ IdleRemote /\ IdleApi /\ IdleSessions /\ IdleMcp
SpecRemote == InitRemote /\ [][NextRemote]_vars

(***************************************************************************)
(* Properties of the selection and the views (frontend)                    *)
(***************************************************************************)
\* the selection and the view an event of the history started from
SelBefore(k) == IF k = 1 THEN <<>> ELSE history[k - 1].sel
ViewBefore(k) == IF k = 1 THEN "table" ELSE history[k - 1].view
IsToggle(k) == k \in DOMAIN history /\ history[k].op = "toggle"
DistinctIds(a, b) == ~StrictEq(a.id, b.id)

\* C1: after any sequence of toggle and clear events from the empty selection,
\* the selection holds at most 2 heroes and no two of them have the same id.
C1_SelectionBounded ==
    /\ Len(selectedHeroes) <= 2
    /\ \A i, j \in DOMAIN selectedHeroes :
         i # j => ~StrictEq(selectedHeroes[i].id, selectedHeroes[j].id)

\* a full selection, built by a toggle since the last clear, on a list with a repeated id
C1_Witness ==
    /\ Len(selectedHeroes) = 2
    /\ \E k \in DOMAIN history : history[k].op = "back"
    /\ history[Len(history)].op = "toggle"
    /\ \E i, j \in DOMAIN superheroes : i # j /\ StrictEq(superheroes[i].id, superheroes[j].id)

\* C2: from the empty selection, toggling three distinct heroes X, Y, Z yields
\* [Y, Z]; a toggle of an unselected hero on a full selection evicts index 0,
\* moves the former second member to index 0 and appends the new hero.
C2_EvictsOldest ==
    /\ \A k \in DOMAIN history :
         (IsToggle(k) /\ Len(SelBefore(k)) = 2 /\ ~FindById(SelBefore(k), history[k].hero))
            => history[k].sel = <<SelBefore(k)[2], history[k].hero>>
    /\ \A k \in DOMAIN history :
         ( /\ SelBefore(k) = <<>>
           /\ IsToggle(k) /\ IsToggle(k + 1) /\ IsToggle(k + 2)
           /\ DistinctIds(history[k].hero, history[k + 1].hero)
           /\ DistinctIds(history[k].hero, history[k + 2].hero)
           /\ DistinctIds(history[k + 1].hero, history[k + 2].hero) )
            => history[k + 2].sel = <<history[k + 1].hero, history[k + 2].hero>>

\* A-Bomb, Ant-Man, Bane toggled in this order as the first three events
C2_Witness ==
    /\ Len(history) = 3
    /\ IsToggle(1) /\ IsToggle(2) /\ IsToggle(3)
    /\ history[1].hero = ABomb /\ history[2].hero = AntMan /\ history[3].hero = Bane
    /\ selectedHeroes = <<AntMan, Bane>>

\* C3: toggling a selected hero removes it; toggling the same hero again right
\* after re-adds it at the end of the selection.
C3_ToggleOffThenOn ==
    \A k \in DOMAIN history :
        (IsToggle(k) /\ FindById(SelBefore(k), history[k].hero))
           => /\ ~FindById(history[k].sel, history[k].hero)
              /\ Len(history[k].sel) = Len(SelBefore(k)) - 1
              /\ (IsToggle(k + 1) /\ history[k + 1].hero = history[k].hero)
                    => history[k + 1].sel = Append(history[k].sel, history[k].hero)

\* the older member of a full selection toggled off and on again: it comes back last
C3_Witness ==
    \E k \in DOMAIN history :
        /\ IsToggle(k) /\ IsToggle(k + 1)
        /\ history[k + 1].hero = history[k].hero
        /\ Len(SelBefore(k)) = 2
        /\ StrictEq(SelBefore(k)[1].id, history[k].hero.id)
        /\ k + 1 = Len(history)
        /\ selectedHeroes = <<SelBefore(k)[2], history[k].hero>>

\* C4: the clear event (Back to Heroes Table) resets the selection to the empty
\* sequence and the view to 'table'; right after it no hero is selected and the
\* Compare button is disabled.
C4_BackClears ==
    /\ \A k \in DOMAIN history :
         history[k].op = "back" => history[k].sel = <<>> /\ history[k].view = "table"
    /\ (history # <<>> /\ history[Len(history)].op = "back")
          => /\ selectedHeroes = <<>>
             /\ currentView = "table"
             /\ CompareDisabled
             /\ \A i \in DOMAIN superheroes : ~isHeroSelected(superheroes[i].id)

\* back from a comparison of two heroes
C4_Witness ==
    /\ history # <<>>
    /\ history[Len(history)].op = "back"
    /\ Len(SelBefore(Len(history))) = 2
    /\ ViewBefore(Len(history)) = "comparison"

\* C5: a comparison is issued iff exactly two heroes are selected: the Compare
\* button is enabled exactly when the selection has size 2, a compare with 2
\* selected opens the comparison, and a compare with 0 or 1 selected changes
\* neither the view nor the selection.
C5_CompareNeedsTwo ==
    /\ ~CompareDisabled <=> Len(selectedHeroes) = 2
    /\ currentView = "comparison" => Len(selectedHeroes) = 2
    /\ \A k \in DOMAIN history :
         history[k].op = "compare"
            => /\ history[k].sel = SelBefore(k)
               /\ Len(SelBefore(k)) = 2 => history[k].view = "comparison"
               /\ Len(SelBefore(k)) # 2 => history[k].view = ViewBefore(k)

\* a compare that was refused with one hero selected, then one that opened the comparison
C5_Witness ==
    /\ currentView = "comparison"
    /\ \E k \in DOMAIN history :
         history[k].op = "compare" /\ Len(SelBefore(k)) = 1 /\ history[k].view = "table"
    /\ \E k \in DOMAIN history :
         history[k].op = "compare" /\ Len(SelBefore(k)) = 0

(***************************************************************************)
(* Properties of the compare endpoint                                      *)
(***************************************************************************)
\* the two hero records a 200 response compared
Hero1 == store.heroes[FindHero(store.heroes, res.id1)]
Hero2 == store.heroes[FindHero(store.heroes, res.id2)]
CanonicalNames == <<"intelligence", "strength", "speed", "durability", "power", "combat">>
Flip(w) == CASE w = "1" -> "2" [] w = "2" -> "1" [] OTHER -> w

\* the specification's safe numeric read: a value that is absent, null or fails
\* numeric coercion counts as 0
SafeNumeric(raw) == LET n == ToNumber(raw) IN IF n.nan THEN 0 ELSE n.v
\* null, absent, or a string with no numeric reading at all
Malformed(raw) ==
    \/ raw.t \in {"null", "undef"}
    \/ raw.t = "str" /\ StringToNumber(raw.s).nan /\ ParseIntString(raw.s).nan

\* C6: every result of compare has exactly 6 categories, named intelligence,
\* strength, speed, durability, power, combat in this order, whatever powerstats
\* are missing or malformed.
C6_SixCategoriesInOrder ==
    res.status = 200
       => /\ Len(res.categories) = 6
          /\ \A i \in 1..6 : res.categories[i].name = CanonicalNames[i]

\* a result for a hero without powerstats against one with unparsable values
C6_Witness ==
    /\ res.status = 200
    /\ Hero1.powerstats.t = "undef"
    /\ Hero2.powerstats = Uniform(Str(InvalidChars))
    /\ Len(res.categories) = 6

\* C7: in each category the winner is 1 when hero 1's safe numeric value is
\* strictly greater, 2 when hero 2's is, and "tie" exactly when they are equal.
C7_WinnerBySafeValue ==
    res.status = 200
       => \A i \in DOMAIN res.categories :
            LET c == res.categories[i]
                s1 == SafeNumeric(ReadStat(Hero1, c.name))
                s2 == SafeNumeric(ReadStat(Hero2, c.name))
            IN  /\ c.winner = "1" <=> s1 > s2
                /\ c.winner = "2" <=> s2 > s1
                /\ c.winner = "tie" <=> s1 = s2

\* C8: overall_winner is 1, 2 or "tie"; it is "tie" iff the two sides won the
\* same number of categories, and otherwise the side that won more of them.
C8_OverallByCategoryCount ==
    res.status = 200
       => LET w1 == Wins(res.categories, "1")
              w2 == Wins(res.categories, "2")
          IN  /\ res.overall_winner \in {"1", "2", "tie"}
              /\ res.overall_winner = "tie" <=> w1 = w2
              /\ res.overall_winner = "1" <=> w1 > w2
              /\ res.overall_winner = "2" <=> w2 > w1

\* A-Bomb against Ant-Man: three categories each, though A-Bomb's values sum higher
C8_Witness ==
    /\ res.status = 200
    /\ Hero1 = ABomb /\ Hero2 = AntMan
    /\ Wins(res.categories, "1") = 3 /\ Wins(res.categories, "2") = 3
    /\ SumValues(res.categories, 1) > SumValues(res.categories, 2)
    /\ res.overall_winner = "tie"

\* C9: compare(A,B) and compare(B,A) mirror each other: category winners and
\* the overall winner swap 1 and 2, ties stay ties, id1/id2 swap and each
\* category's id1_value and id2_value are exchanged.
C9_Mirror ==
    res.status = 200
       => LET m == CompareHandler(store, [id1 |-> req.id2, id2 |-> req.id1])
          IN  /\ m.status = 200
              /\ m.id1 = res.id2 /\ m.id2 = res.id1
              /\ Len(m.categories) = Len(res.categories)
              /\ \A i \in DOMAIN res.categories :
                   /\ m.categories[i].name = res.categories[i].name
                   /\ m.categories[i].winner = Flip(res.categories[i].winner)
                   /\ m.categories[i].id1_value = res.categories[i].id2_value
                   /\ m.categories[i].id2_value = res.categories[i].id1_value
              /\ m.overall_winner = Flip(res.overall_winner)

\* two different heroes, a result with a category won, a category lost and one tied
C9_Witness ==
    /\ res.status = 200
    /\ req.id1 # req.id2
    /\ res.overall_winner = "2"
    /\ \E i, j, k \in DOMAIN res.categories :
         /\ res.categories[i].winner = "1"
         /\ res.categories[j].winner = "2"
         /\ res.categories[k].winner = "tie"

\* C10: a powerstat that is null, absent or non-numeric is treated as 0: the
\* reported value is 0, the winner is decided as if it were 0, the response is
\* a result and the category is present.
C10_MalformedIsZero ==
    (res.status # 0 /\ ~Falsy(req.id1) /\ ~Falsy(req.id2)
        /\ store.ok /\ FindHero(store.heroes, ToNumber(req.id1)) # 0
        /\ FindHero(store.heroes, ToNumber(req.id2)) # 0)
       => /\ res.status = 200
          /\ Len(res.categories) = 6
          /\ \A i \in DOMAIN res.categories :
               LET c == res.categories[i]
                   r1 == ReadStat(Hero1, c.name)
                   r2 == ReadStat(Hero2, c.name)
               IN  /\ Malformed(r1) => c.id1_value = JsNum(0)
                   /\ Malformed(r2) => c.id2_value = JsNum(0)
                   /\ (Malformed(r1) \/ Malformed(r2))
                         => c.winner = CategoryWinner(JsNum(SafeNumeric(r1)), JsNum(SafeNumeric(r2)))

\* C11: A-Bomb {38, 100, 17, 80, 24, 64} as side 1 against Ant-Man
\* {100, 18, 23, 28, 32, 32} as side 2: category winners 2, 1, 2, 1, 2, 1 and
\* overall "tie" (3-3), in the backend compare and in the frontend calculateWinner.
C11_ABombAgainstAntMan ==
    (res.status = 200 /\ Hero1.powerstats = ABomb.powerstats /\ Hero2.powerstats = AntMan.powerstats)
       => /\ [i \in 1..6 |-> res.categories[i].winner] = <<"2", "1", "2", "1", "2", "1">>
          /\ res.overall_winner = "tie"
          /\ Wins(res.categories, "1") = 3 /\ Wins(res.categories, "2") = 3
          /\ [i \in 1..6 |-> StatRowWinner(Hero1, Hero2, categoriesOrder[i])]
                = <<"hero2", "hero1", "hero2", "hero1", "hero2", "hero1">>
          /\ calculateWinner(Hero1, Hero2) = [winner |-> "null", score |-> <<3, 3>>]

\* the response to id1=1&id2=2 on the data of the tests
C11_Witness ==
    /\ res.status = 200
    /\ Hero1 = ABomb /\ Hero2 = AntMan
    /\ res.id1 = JsNum(10) /\ res.id2 = JsNum(20)
    /\ res.categories[2].id1_value = JsNum(1000) /\ res.categories[2].id2_value = JsNum(180)

(***************************************************************************)
(* Properties of the handler's outcomes (backend)                          *)
(***************************************************************************)
\* a query value that is a run of decimal digits
IsNumeral(x) == x.t = "str" /\ x.s # <<>> /\ \A i \in 1..Len(x.s) : IsDigit(x.s[i])

\* a query value that is missing or not numeric
MissingOrNonNumeric(x) == ~IsNumeral(x)

\* some hero of the list has the id the query value names
Resolves(heroes, x) ==
    \E i \in 1..Len(heroes) : JsNumEq(ToNumber(heroes[i].id), ToNumber(x))

\* a request has been handled
Handled == res # NoRes

C13_UnresolvedIsNotFound ==
    (Handled /\ \E x \in {req.id1, req.id2} : IsNumeral(x) /\ ~Resolves(store.heroes, x))
       => /\ res.error = NotFoundError
          /\ "compare" \notin {steps[i] : i \in 1..Len(steps)}

\* C13 amended: when both ids are present and numeric and the data file is
\* readable, a request in which id1 or id2 resolves to no hero gets 400 "One or
\* both superheroes not found"; and in every request with a numeric id that
\* resolves to no hero, the per-category comparison is never computed.
C13_UnresolvedIsNotFoundWhenValid ==
    (Handled /\ \E x \in {req.id1, req.id2} : IsNumeral(x) /\ ~Resolves(store.heroes, x))
       => /\ "compare" \notin {steps[i] : i \in 1..Len(steps)}
          /\ res.categories = <<>>
          /\ res.status # 200
          /\ (IsNumeral(req.id1) /\ IsNumeral(req.id2) /\ store.ok)
                => (res.status = 400 /\ res.error = NotFoundError
                    /\ steps = <<"validate", "loadSuperheroes", "find">>)

\* id1=1&id2=9999 on the data of the tests
C13_Witness ==
    /\ store.ok /\ store.heroes = <<ABomb, AntMan, Bane>>
    /\ req.id1 = Str(Chars1) /\ req.id2 = Str(Chars9999)
    /\ res.status = 400 /\ res.error = NotFoundError
    /\ steps = <<"validate", "loadSuperheroes", "find">>

\* C14: a request with id1 equal to id2, naming a hero of the store, is
\* accepted (200) and all six category winners and the overall winner are
\* "tie", whatever the hero's powerstats are.
C14_SelfCompareAllTie ==
    (/\ Handled /\ store.ok
     /\ IsNumeral(req.id1) /\ IsNumeral(req.id2)
     /\ JsNumEq(ToNumber(req.id1), ToNumber(req.id2))
     /\ Resolves(store.heroes, req.id1))
       => /\ res.status = 200
          /\ Len(res.categories) = 6
          /\ \A i \in 1..6 : res.categories[i].winner = "tie"
          /\ res.overall_winner = "tie"

\* a hero without a powerstats object compared with itself
C14_Witness ==
    /\ store.ok /\ store.heroes[2].powerstats = PsUndef
    /\ req.id1 = Str(Chars2) /\ req.id2 = Str(Chars2)
    /\ res.status = 200 /\ res.overall_winner = "tie"
    /\ res.categories[1].id1_value = NaN

IsInteger(x) == ~x.nan /\ x.v % 10 = 0

\* C16: in every comparison result id1 and id2 are the numeric values of the
\* requested identifiers and every category's id1_value and id2_value is an
\* integer (never NaN, null or fractional), whatever the data file holds.
C16_IntegerValues ==
    res.status = 200
       => /\ res.id1 = ToNumber(req.id1) /\ res.id2 = ToNumber(req.id2)
          /\ IsInteger(res.id1) /\ IsInteger(res.id2)
          /\ \A i \in 1..Len(res.categories) :
                IsInteger(res.categories[i].id1_value) /\ IsInteger(res.categories[i].id2_value)

(***************************************************************************)
(* Properties of the hero list loading (frontend)                          *)
(***************************************************************************)
\* the load failed: no response yet, a non-OK status, or a body that is not a
\* JSON array
LoadFailed ==
    \/ ~fetchState.done
    \/ ~fetchState.response.ok
    \/ fetchState.response.kind # "array"

\* C17: when loading the hero list fails (non-OK status, unparsable body, a
\* body that is not an array, or a request that never completes) the hero list
\* is empty, the selection is empty, the view is 'table' and Compare is
\* disabled, whatever the user clicks.
C17_LoadFailureLeavesEmptyTable ==
    LoadFailed
       => /\ superheroes = <<>>
          /\ selectedHeroes = <<>>
          /\ currentView = "table"
          /\ CompareDisabled

\* a non-OK response that carries a hero array, and a click on Compare after it
C17_Witness ==
    /\ fetchState.done
    /\ ~fetchState.response.ok /\ fetchState.response.kind = "array"
    /\ fetchState.response.data # <<>>
    /\ superheroes = <<>>
    /\ Len(history) > 0 /\ history[Len(history)].op = "compare"

(***************************************************************************)
(* Properties of concurrent sessions                                       *)
(***************************************************************************)
\* the selection and view a single App reaches from its initial state by
\* handling the events in order
RECURSIVE Replay(_)
Replay(events) ==
    IF events = <<>> THEN [sel |-> <<>>, view |-> "table"]
    ELSE LET before == Replay(SubSeq(events, 1, Len(events) - 1))
             e == events[Len(events)]
         IN  CASE e.op = "toggle" -> [sel |-> handleHeroSelection(before.sel, e.hero), view |-> before.view]
               [] e.op = "compare" -> [sel |-> before.sel, view |-> handleCompare(before.sel, before.view)]
               [] e.op = "back" -> [sel |-> <<>>, view |-> "table"]

SatisfiesStated(hero, name, id) ==
    \/ name.t = "str" /\ heroNameLc(hero) = toLowerCase(name.s)
    \/ id.t = "str" /\ heroIdStr(hero) = id.s

\* the same conditions, each counting only for an argument that is given and
\* not the empty string
SatisfiesNonEmpty(hero, name, id) ==
    \/ name.t = "str" /\ name.s # <<>> /\ heroNameLc(hero) = toLowerCase(name.s)
    \/ id.t = "str" /\ id.s # <<>> /\ heroIdStr(hero) = id.s

Found == tool.called /\ tool.result.error = ""
NotFound == tool.called /\ tool.result.error = "Superhero not found"

IsAddingToggle(k) == IsToggle(k) /\ ~FindById(SelBefore(k), history[k].hero)

\* C20: from the empty selection, after n >= 2 toggles each of a hero that is
\* not selected at the moment of its toggle, the selection is exactly the last
\* two toggled heroes in toggle order (toggles A, B, C, A, B end with [A, B]).
C20_LastTwoToggled ==
    \A a \in DOMAIN history : \A b \in DOMAIN history :
        ( /\ a + 1 <= b
          /\ SelBefore(a) = <<>>
          /\ \A k \in a..b : IsAddingToggle(k) )
           => history[b].sel = <<history[b - 1].hero, history[b].hero>>

\* the toggles A-Bomb, Ant-Man, Bane, A-Bomb, Ant-Man
C20_Witness ==
    /\ Len(history) = 5
    /\ \A k \in 1..5 : IsAddingToggle(k)
    /\ [k \in 1..5 |-> history[k].hero] = <<ABomb, AntMan, Bane, ABomb, AntMan>>
    /\ selectedHeroes = <<ABomb, AntMan>>
    /\ ~isHeroSelected(Bane.id)

\* C21: toggling a selected hero removes only that hero: the size decreases
\* by exactly 1 and every other selected hero stays (the other hero of a
\* 2-selection becomes the sole member); toggling an unselected hero while
\* fewer than 2 are selected increases the size by exactly 1, keeps the members
\* in their positions and places the new hero last.
C21_ToggleChangesOneMembership ==
    \A k \in DOMAIN history :
        IsToggle(k) =>
            LET before == SelBefore(k)
                after == history[k].sel
                hero == history[k].hero
            IN  /\ FindById(before, hero)
                    => /\ Len(after) = Len(before) - 1
                       /\ ~FindById(after, hero)
                       /\ \A i \in DOMAIN before :
                             DistinctIds(before[i], hero) => \E j \in DOMAIN after : after[j] = before[i]
                       /\ Len(before) = 2
                             => \E i \in 1..2 : DistinctIds(before[i], hero) /\ after = <<before[i]>>
                /\ (~FindById(before, hero) /\ Len(before) < 2)
                    => /\ Len(after) = Len(before) + 1
                       /\ \A i \in DOMAIN before : after[i] = before[i]
                       /\ after[Len(after)] = hero

\* A-Bomb and Ant-Man selected, A-Bomb toggled off, Bane toggled on
C21_Witness ==
    /\ Len(history) = 4
    /\ \A k \in 1..4 : IsToggle(k)
    /\ history[2].sel = <<ABomb, AntMan>>
    /\ history[3].hero = ABomb /\ history[3].sel = <<AntMan>>
    /\ history[4].hero = Bane /\ selectedHeroes = <<AntMan, Bane>>

(***************************************************************************)
(* Properties of the frontend that fetches the comparison                  *)
(***************************************************************************)
\* C22: under every interleaving of toggle, compare-click, fetch-completion
\* and back events, whenever the current view is 'comparison' the selection
\* holds exactly 2 heroes and the comparison result is non-null.
C22_ComparisonViewIsRendered ==
    (~showLogin /\ currentView = "comparison")
       => (Len(selectedHeroes) = 2 /\ comparisonResult # NoRes)

\* C23: whenever the comparison screen is shown, the stored result belongs
\* to the selected pair: result.id1 is the id of selection[0] and result.id2 the
\* id of selection[1], also when toggles happen while a request is in flight.
C23_ResultBelongsToSelection ==
    RemoteComparisonShown
       => /\ comparisonResult.id1 = ToNumber(selectedHeroes[1].id)
          /\ comparisonResult.id2 = ToNumber(selectedHeroes[2].id)

\* the local-comparison frontend shows the table or the comparison screen
LocalCanReturn == currentView = "table" \/ ComparisonRendered

\* C24: from every reachable state the user can get back to the table with an
\* empty selection by enabled UI events: the page shows the login form (its
\* submit leads to the table), the table (toggling the selected heroes off
\* empties the selection) or the comparison screen with its Back button; no
\* state shows neither the table nor a Back button.
C24_CanAlwaysReturn == showLogin \/ TableShown \/ RemoteComparisonShown

ResultBefore(k) == IF k = 1 THEN NoRes ELSE history[k - 1].result

\* C25: when a compare request fails (the fetch rejects, or the status is not
\* OK) the view, the selection and the stored result are left as they were: a
\* frontend in the table view stays there, and with its two heroes still
\* selected Compare is enabled for a retry.
C25_FailureChangesNothing ==
    \A k \in DOMAIN history :
        history[k].op = "compareFailed"
           => /\ history[k].view = ViewBefore(k)
              /\ history[k].sel = SelBefore(k)
              /\ history[k].result = ResultBefore(k)
              /\ ViewBefore(k) = "table" => history[k].view = "table"
              /\ (ViewBefore(k) = "table" /\ Len(SelBefore(k)) = 2)
                    => Len(history[k].sel) = 2

\* a comparison that failed, was retried with the same selection and succeeded
C25_Witness ==
    /\ Len(history) = 6
    /\ history[3].op = "compare" /\ history[4].op = "compareFailed"
    /\ history[5].op = "compare" /\ history[6].op = "compared"
    /\ history[4].view = "table" /\ history[4].sel = <<ABomb, AntMan>>
    /\ history[4].result = NoRes
    /\ RemoteComparisonShown

(***************************************************************************)
(* The hero list and its rendering (frontend)                              *)
(***************************************************************************)
\* the list as the fetch left it
LoadedList == IF fetchState.done THEN fetchSuperheroes(fetchState.response) ELSE <<>>

\* C26: toggle, compare and back events never modify the loaded hero list:
\* after any sequence of them the list is the one the load produced and the
\* table shows the same heroes, in the same order, with the same data.
C26_HeroListUntouched ==
    /\ superheroes = LoadedList
    /\ Len(TableRows) = Len(LoadedList)
    /\ \A i \in DOMAIN LoadedList : TableRows[i].data = RowData(LoadedList[i])

\* a full cycle (two toggles, compare, back) and a further toggle on the three heroes
C26_Witness ==
    /\ Len(history) = 5
    /\ history[3].op = "compare" /\ history[3].view = "comparison"
    /\ history[4].op = "back"
    /\ history[5].op = "toggle" /\ selectedHeroes = <<Bane>>
    /\ superheroes = <<ABomb, AntMan, Bane>>
    /\ TableRows[3].checked /\ TableRows[1].data.name = "A-Bomb"

(***************************************************************************)
(* Properties of the safe numeric read and of the comparison screen        *)
(***************************************************************************)
\* what the safe read is to return for each raw value of the data files, in
\* tenths: 0 for an absent, null or unparsable value, else the integer parsed
ExpectedSafeStat(raw) ==
    CASE raw = Undef -> 0
      [] raw = Null -> 0
      [] raw = Num(0) -> 0
      [] raw = Num(-5) -> -50
      [] raw = Num(7) -> 70
      [] raw = Tenths(75) -> 70
      [] raw = Tenths(72) -> 70
      [] raw = Str(<<>>) -> 0
      [] raw = Str(Chars7) -> 70
      [] raw = Str(Chars7p5) -> 70
      [] raw = Str(InvalidChars) -> 0
      [] raw = Str(Chars12abc) -> 120
      [] raw = Str(CharsPadded7) -> 70
      [] raw = Str(CharsMinus5) -> -50

\* C27: getSafeStat(hero, stat) is 0 when the hero has no powerstats object
\* or the stat is null, undefined or not parseable as an integer, and else the
\* integer parsed from the value (negative values kept); it is never NaN.
C27_SafeStat ==
    screen.version = "local"
       => \A i \in DOMAIN categoriesOrder :
             LET cat == categoriesOrder[i]
                 Shown(hero, value) ==
                     /\ ~value.nan /\ value.v % 10 = 0
                     /\ hero.powerstats.t # "obj" => value = JsNum(0)
                     /\ (hero.powerstats.t = "obj" /\ hero.powerstats.m[cat] \in StatInputs)
                           => value = JsNum(ExpectedSafeStat(hero.powerstats.m[cat]))
             IN  /\ Shown(screen.hero1, screen.rows[i].stat1)
                 /\ Shown(screen.hero2, screen.rows[i].stat2)

\* the float 7.5 against the string "-5": shown as 7 and -5
C27_Witness ==
    /\ screen.version = "local"
    /\ screen.hero1.powerstats = Uniform(Tenths(75))
    /\ screen.hero2.powerstats = Uniform(Str(CharsMinus5))
    /\ screen.rows[1].stat1 = JsNum(70) /\ screen.rows[1].stat2 = JsNum(-50)

\* the backend's name for a side the frontend calls hero1, hero2 or tie/null
SideName(w) == CASE w = "hero1" -> "1" [] w = "hero2" -> "2" [] OTHER -> "tie"

\* C28: the local comparison of the frontend (getSafeStat + calculateWinner)
\* and the backend's compare endpoint agree for every pair of hero records: the
\* same winner in each of the six categories and the same overall winner.
C28_FrontendAgreesWithBackend ==
    (screen.version = "local" /\ res.status = 200)
       => /\ \A i \in DOMAIN categoriesOrder :
                SideName(screen.rows[i].winner) = res.categories[i].winner
          /\ SideName(calculateWinner(screen.hero1, screen.hero2).winner) = res.overall_winner

\* the rows of the screen that highlight the given side
RowsWon(side) == Cardinality({i \in DOMAIN screen.rows : screen.rows[i].winner = side})

\* C30: in the result display the two category-win counts sum to at most 6,
\* a winner is announced if and only if the counts differ, the announced winner
\* is the hero with the strictly larger count, and the score lists the winner's
\* count first (for a tie, hero 1's count first).
C30_ResultDisplay ==
    screen.version # "none"
       => LET wins1 == RowsWon("hero1")
              wins2 == RowsWon("hero2")
          IN  /\ wins1 + wins2 <= 6
              /\ screen.announced = "winner" <=> wins1 # wins2
              /\ screen.announced = "tie" <=> wins1 = wins2
              /\ wins1 > wins2 => (screen.winnerName = screen.hero1.name /\ screen.score = <<wins1, wins2>>)
              /\ wins2 > wins1 => (screen.winnerName = screen.hero2.name /\ screen.score = <<wins2, wins1>>)
              /\ wins1 = wins2 => screen.score = <<wins1, wins2>>

\* hero 2 wins 6-0 on the local screen
C30_Witness ==
    /\ screen.version = "local"
    /\ screen.announced = "winner" /\ screen.winnerName = "Hero B"
    /\ screen.score = <<6, 0>>
    /\ RowsWon("hero1") = 0 /\ RowsWon("hero2") = 6

(***************************************************************************)
(* The order of the handler's checks (backend)                             *)
(***************************************************************************)
\* a query value that is absent or the empty string
MissingOrEmpty(x) == x.t = "undef" \/ (x.t = "str" /\ x.s = <<>>)

====
